---- MODULE Spec2Model ----
(***************************************************************************)
(* State-machine model of the multi-user todo API (backend/app): the       *)
(* token service (core/security.py), the authentication dependency         *)
(* (api/deps.py), the auth workflow (services/auth_service.py,             *)
(* api/routes/auth.py) and the task ownership workflow                     *)
(* (services/task_service.py, api/routes/tasks.py).                        *)
(*                                                                         *)
(* Conventions.  A Python str is a sequence of one-character strings, so   *)
(* that lower() and strip() are computed and not assumed.  Optional[T] is  *)
(* a sequence of length at most one: None is <<>>, a value x is <<x>>.     *)
(* A datetime is a number of clock ticks; TicksPerSecond ticks make one    *)
(* second, so that the truncation of "exp" to whole seconds is visible.    *)
(***************************************************************************)
EXTENDS Integers, Sequences, FiniteSets, TLC

(***************************************************************************)
(* Bounds of the model.                                                    *)
(***************************************************************************)
MaxUsers == 2
MaxTasks == 2
TicksPerSecond == 2
MaxSeconds == 3
MaxIssued == 4
MaxSignups == 3
MaxWriters == 3
\* settings.ACCESS_TOKEN_EXPIRE_MINUTES and settings.REFRESH_TOKEN_EXPIRE_DAYS
\* are configuration; the model counts both lifetimes in seconds and keeps
\* the refresh lifetime RefreshExtra seconds longer than the access lifetime.
AccessLifeSeconds == 1
RefreshExtra == 1

BCRYPT_ROUNDS == 12
HTTP_200_OK == 200
HTTP_201_CREATED == 201
HTTP_204_NO_CONTENT == 204
HTTP_401_UNAUTHORIZED == 401
HTTP_404_NOT_FOUND == 404
HTTP_409_CONFLICT == 409
HTTP_422_UNPROCESSABLE_ENTITY == 422
HTTP_500_INTERNAL_SERVER_ERROR == 500
MIN_PASSWORD_LENGTH == 8

MaxTime == (MaxSeconds + 1) * TicksPerSecond - 1

(***************************************************************************)
(* Optional values and Python strings.                                     *)
(***************************************************************************)
None == <<>>
Some(x) == <<x>>

\* str.lower(), character by character
LowerChar(c) ==
    CASE c = "A" -> "a"
      [] c = "B" -> "b"
      [] OTHER -> c

Lower(s) == [i \in 1..Len(s) |-> LowerChar(s[i])]

IsSpace(c) == c = " "

RECURSIVE LStrip(_)
LStrip(s) ==
    IF s = <<>> THEN <<>>
    ELSE IF IsSpace(Head(s)) THEN LStrip(Tail(s)) ELSE s

RECURSIVE RStrip(_)
RStrip(s) ==
    IF s = <<>> THEN <<>>
    ELSE IF IsSpace(s[Len(s)]) THEN RStrip(SubSeq(s, 1, Len(s) - 1)) ELSE s

\* str.strip()
Strip(s) == RStrip(LStrip(s))

(***************************************************************************)
(* core/security.py: password hashing.                                     *)
(***************************************************************************)
Salts == {"s1"}

\* the bcrypt checksum of a password under a salt and a cost
BcryptDigest(salt, rounds, password) ==
    [salt |-> salt, rounds |-> rounds, of |-> password]

\* pwd_context.hash(password): the output names scheme, cost and salt
hash_password(password, salt) ==
    [scheme |-> "bcrypt", rounds |-> BCRYPT_ROUNDS, salt |-> salt,
     checksum |-> BcryptDigest(salt, BCRYPT_ROUNDS, password)]

\* pwd_context.verify(plain, hashed): recompute under the hash's own salt
verify_password(plain_password, hashed_password) ==
    hashed_password.checksum
        = BcryptDigest(hashed_password.salt, hashed_password.rounds, plain_password)

(***************************************************************************)
(* core/security.py: JWT creation and verification (python-jose).          *)
(***************************************************************************)
BETTER_AUTH_SECRET == "secret"
OtherKey == "other-key"

AccessLifeTicks == AccessLifeSeconds * TicksPerSecond
RefreshLifeSeconds == AccessLifeSeconds + RefreshExtra
RefreshLifeTicks == RefreshLifeSeconds * TicksPerSecond

\* calendar.timegm(dt.utctimetuple()): whole seconds, the fraction is dropped
timegm(t) == t \div TicksPerSecond

\* HMAC-SHA256 of the signing input under a key
HMAC(key, payload) == [key |-> key, msg |-> payload]

\* jwt.encode: a datetime "exp" becomes whole seconds, then header.payload.sig
jwt_encode(claims, key) ==
    LET converted == [claims EXCEPT !.exp =
                        IF claims.exp = None THEN None
                        ELSE Some(timegm(claims.exp[1]))]
    IN [wf |-> TRUE, payload |-> converted, sig |-> HMAC(key, converted)]

\* a decode that already rejects a token in the whole second of its "exp"
jwt_decode_expiring_early(token, key, t) ==
    IF ~token.wf THEN [raised |-> "JWTError", payload |-> token.payload]
    ELSE IF token.sig # HMAC(key, token.payload)
        THEN [raised |-> "JWTError", payload |-> token.payload]
    ELSE IF token.payload.exp # None /\ token.payload.exp[1] <= timegm(t)
        THEN [raised |-> "ExpiredSignatureError", payload |-> token.payload]
    ELSE [raised |-> "", payload |-> token.payload]

\* jwt.decode at clock reading t.  It raises JWTError for a token that does
\* not parse or whose signature does not match, and ExpiredSignatureError
\* when the "exp" claim is less than the current whole second; a token
\* without "exp" is not checked for expiry.
jwt_decode(token, key, t) ==
    IF ~token.wf THEN [raised |-> "JWTError", payload |-> token.payload]
    ELSE IF token.sig # HMAC(key, token.payload)
        THEN [raised |-> "JWTError", payload |-> token.payload]
    ELSE IF token.payload.exp # None /\ token.payload.exp[1] < timegm(t)
        THEN [raised |-> "ExpiredSignatureError", payload |-> token.payload]
    ELSE [raised |-> "", payload |-> token.payload]

\* the exception classes "except JWTError" catches
JWTErrors == {"JWTError", "ExpiredSignatureError", "JWTClaimsError"}

create_access_token(data, t) ==
    jwt_encode([user_id |-> data.user_id, exp |-> Some(t + AccessLifeTicks)],
               BETTER_AUTH_SECRET)

\* a refresh token given the access token's lifetime
create_refresh_token_short(data, t) ==
    jwt_encode([user_id |-> data.user_id, exp |-> Some(t + AccessLifeTicks)],
               BETTER_AUTH_SECRET)

\* a refresh token signed with a key of its own
create_refresh_token_own_key(data, t) ==
    jwt_encode([user_id |-> data.user_id, exp |-> Some(t + RefreshLifeTicks)],
               OtherKey)

create_refresh_token(data, t) ==
    jwt_encode([user_id |-> data.user_id, exp |-> Some(t + RefreshLifeTicks)],
               BETTER_AUTH_SECRET)

\* an except clause that names only the expiry error
verify_token_narrow_except(token, t) ==
    LET d == jwt_decode(token, BETTER_AUTH_SECRET, t)
    IN IF d.raised = "" THEN [raised |-> "", payload |-> Some(d.payload)]
       ELSE IF d.raised = "ExpiredSignatureError" THEN [raised |-> "", payload |-> None]
       ELSE [raised |-> d.raised, payload |-> None]

\* a verification that already refuses a token in the whole second of its exp
verify_token_refusing_expiry_second(token, t) ==
    LET d == jwt_decode(token, BETTER_AUTH_SECRET, t)
    IN IF d.raised = "" /\ d.payload.exp # None /\ d.payload.exp[1] = timegm(t)
       THEN [raised |-> "", payload |-> None]
       ELSE IF d.raised = "" THEN [raised |-> "", payload |-> Some(d.payload)]
       ELSE IF d.raised \in JWTErrors THEN [raised |-> "", payload |-> None]
       ELSE [raised |-> d.raised, payload |-> None]

\* verify_token, lines 136-144: the payload, or None for every JWTError; any
\* other exception leaves the function
verify_token(token, t) ==
    LET d == jwt_decode(token, BETTER_AUTH_SECRET, t)
    IN IF d.raised = "" THEN [raised |-> "", payload |-> Some(d.payload)]
       ELSE IF d.raised \in JWTErrors THEN [raised |-> "", payload |-> None]
       ELSE [raised |-> d.raised, payload |-> None]

(***************************************************************************)
(* State.                                                                  *)
(***************************************************************************)
VARIABLES
    users,      \* table "users": id -> row
    user_seq,   \* last value drawn from the users.id sequence
    tasks,      \* table "tasks": id -> row
    task_seq,   \* last value drawn from the tasks.id sequence
    now,        \* datetime.utcnow(), in ticks
    issued,     \* every token the server has returned in a response, with
                \* its kind, its user and the clock reading at issuance
    req,        \* the request being answered (NoReq between requests)
    resp,       \* the response to req
    fetched,    \* the task rows the queries of that request returned
    procs       \* in-flight requests of the concurrent specifications

vars == <<users, user_seq, tasks, task_seq, now, issued, req, resp, fetched, procs>>

(***************************************************************************)
(* Requests and responses.                                                 *)
(***************************************************************************)
NoReq ==
    [op |-> "none", token |-> None, task_id |-> 0, email |-> <<>>,
     password |-> "", name |-> <<>>, title |-> <<>>, description |-> None,
     body_user_id |-> 0]

Request(op) == [NoReq EXCEPT !.op = op]

NoResp ==
    [status |-> 0, detail |-> "", www_authenticate |-> FALSE, user |-> None,
     access_token |-> None, refresh_token |-> None, tasks |-> <<>>]

\* fastapi.HTTPException(status_code, detail): body {"detail": detail}
HTTPException(status_code, detail) ==
    [NoResp EXCEPT !.status = status_code, !.detail = detail]

\* a response schema that carries every column of the row
UserResponse_with_hash(user) ==
    [id |-> user.id, email |-> user.email, name |-> user.name,
     created_at |-> user.created_at, password_hash |-> user.password_hash]

\* schemas/auth.py UserResponse: id, email, name, created_at and nothing else
UserResponse(user) ==
    [id |-> user.id, email |-> user.email, name |-> user.name,
     created_at |-> user.created_at]

\* schemas/auth.py AuthResponse
AuthResponse(status_code, user, access_token, refresh_token) ==
    [NoResp EXCEPT !.status = status_code, !.user = Some(UserResponse(user)),
                   !.access_token = Some(access_token),
                   !.refresh_token = Some(refresh_token)]

\* schemas/auth.py RefreshResponse: an access token and no refresh token
RefreshResponse(access_token) ==
    [NoResp EXCEPT !.status = HTTP_200_OK, !.access_token = Some(access_token)]

\* schemas/auth.py MessageResponse
MessageResponse(detail) ==
    [NoResp EXCEPT !.status = HTTP_200_OK, !.detail = detail]

\* main.py validation_exception_handler
ValidationErrorResponse(msg) == HTTPException(HTTP_422_UNPROCESSABLE_ENTITY, msg)

(***************************************************************************)
(* Inputs.                                                                 *)
(***************************************************************************)
EmailChars == {"a", "A", "b"}
\* an e-mail address is modelled by its local part; <<>> is an address the
\* format check rejects
RawEmails == {<<>>} \cup {<<c>> : c \in EmailChars}
SigninPasswords == {"password1", "password2"}

\* tokens a client can present without having been given them
Malformed ==
    [wf |-> FALSE, payload |-> [user_id |-> None, exp |-> None],
     sig |-> HMAC(OtherKey, [user_id |-> None, exp |-> None])]
\* signed with a key that is not the server's
Forged(u) ==
    jwt_encode([user_id |-> Some(u), exp |-> Some(MaxTime + TicksPerSecond)], OtherKey)
\* an issued token whose payload was edited: the signature no longer matches
Tampered(tok, u) ==
    [tok EXCEPT !.payload.user_id = Some(u),
                !.payload.exp = Some(timegm(MaxTime) + 1)]
\* carries the server's signature but no user_id claim
NoSubject ==
    jwt_encode([user_id |-> None, exp |-> Some(MaxTime + TicksPerSecond)],
               BETTER_AUTH_SECRET)

\* a token handed out: the function that made it, for which user, and when
Issue(kind, tok, t, u) == [kind |-> kind, token |-> tok, at |-> t, user_id |-> u]
IssuedTokens == {i.token : i \in issued}

Presentable ==
    IssuedTokens \cup {Malformed, NoSubject, Forged(1)}
                 \cup {Tampered(tok, u) : tok \in IssuedTokens, u \in {1}}

(***************************************************************************)
(* schemas/auth.py: request validation.                                    *)
(***************************************************************************)
\* SignupRequest.validate_email_format: the format check, then lower()
email_format_ok(v) == Len(v) >= 1 /\ \A i \in 1..Len(v) : v[i] \in EmailChars
validate_email_format(v) == Lower(v)
\* SigninRequest.normalize_email
normalize_email(v) == Lower(v)
\* SignupRequest.validate_password_length
password_length_ok(v) == Len(v) >= MIN_PASSWORD_LENGTH
\* SignupRequest.validate_name
name_ok(v) == ~(v = <<>> \/ Strip(v) = <<>>)
validate_name(v) == Strip(v)

(***************************************************************************)
(* services/auth_service.py.                                               *)
(***************************************************************************)
\* db.exec(select(User).where(User.email == email)).first()
select_user_by_email(us, email) ==
    LET hit == {i \in DOMAIN us : us[i].email = email}
    IN IF hit = {} THEN None
       ELSE Some(us[CHOOSE i \in hit : \A j \in hit : i <= j])

\* User(email=..., password_hash=..., name=...): id is assigned by the insert,
\* created_at and updated_at by default_factory=datetime.utcnow
NewUser(email, password_hash, name, t) ==
    [id |-> 0, email |-> email, password_hash |-> password_hash, name |-> name,
     created_at |-> t, updated_at |-> t]

\* an insert into a table without the unique index
insert_user_no_unique(us, seq, row) ==
    [ok |-> TRUE,
     users |-> us @@ ((seq + 1) :> [row EXCEPT !.id = seq + 1]),
     seq |-> seq + 1,
     user |-> [row EXCEPT !.id = seq + 1]]

\* db.add(user); db.commit(): the row takes the next id of the sequence; the
\* unique index on users.email (models/user.py) refuses a second row with the
\* same email with IntegrityError
insert_user(us, seq, row) ==
    IF \E i \in DOMAIN us : us[i].email = row.email
    THEN [ok |-> FALSE, users |-> us, seq |-> seq + 1, user |-> row]
    ELSE [ok |-> TRUE,
          users |-> us @@ ((seq + 1) :> [row EXCEPT !.id = seq + 1]),
          seq |-> seq + 1,
          user |-> [row EXCEPT !.id = seq + 1]]

ConflictError(us, seq) ==
    [error |-> "ConflictError", message |-> "Email already registered",
     users |-> us, seq |-> seq, user |-> None]

\* an insert whose IntegrityError is not caught
create_user_insert_uncaught(us, seq, email, hashed_password, name, t) ==
    LET ins == insert_user(us, seq, NewUser(Lower(email), hashed_password, Strip(name), t))
    IN IF ins.ok
       THEN [error |-> "", message |-> "", users |-> ins.users, seq |-> ins.seq,
             user |-> Some(ins.user)]
       ELSE [error |-> "IntegrityError", message |-> "", users |-> us, seq |-> ins.seq,
             user |-> None]

\* an insert that is never committed: the caller is given the row with its
\* id, the table stays as it was
create_user_insert_uncommitted(us, seq, email, hashed_password, name, t) ==
    LET ins == insert_user(us, seq, NewUser(Lower(email), hashed_password, Strip(name), t))
    IN IF ins.ok
       THEN [error |-> "", message |-> "", users |-> us, seq |-> ins.seq,
             user |-> Some(ins.user)]
       ELSE ConflictError(us, ins.seq)

\* create_user, lines 57-68: build the row, insert; IntegrityError -> ConflictError
create_user_insert(us, seq, email, hashed_password, name, t) ==
    LET ins == insert_user(us, seq, NewUser(Lower(email), hashed_password, Strip(name), t))
    IN IF ins.ok
       THEN [error |-> "", message |-> "", users |-> ins.users, seq |-> ins.seq,
             user |-> Some(ins.user)]
       ELSE ConflictError(us, ins.seq)

\* a create_user that overwrites the row of an email it finds
create_user_upsert(us, seq, email, password, name, salt, t) ==
    LET user == select_user_by_email(us, Lower(email))
    IN IF user # None
       THEN LET new == [user[1] EXCEPT !.password_hash = hash_password(password, salt),
                                       !.name = Strip(name), !.updated_at = t]
            IN [error |-> "", message |-> "", users |-> [us EXCEPT ![new.id] = new],
                seq |-> seq, user |-> Some(new)]
       ELSE create_user_insert(us, seq, email, hash_password(password, salt), name, t)

\* create_user, lines 45-68, run without interruption
create_user(us, seq, email, password, name, salt, t) ==
    IF select_user_by_email(us, Lower(email)) # None
    THEN ConflictError(us, seq)
    ELSE create_user_insert(us, seq, email, hash_password(password, salt), name, t)

\* a wrong password reported in words of its own
authenticate_user_telling(us, email, password) ==
    LET user == select_user_by_email(us, Lower(email))
    IN IF user = None
       THEN [error |-> "AuthenticationError", message |-> "Invalid email or password",
             user |-> None]
       ELSE IF ~verify_password(password, user[1].password_hash)
       THEN [error |-> "AuthenticationError", message |-> "Invalid password",
             user |-> None]
       ELSE [error |-> "", message |-> "", user |-> user]

\* a lookup by the email as it was typed
authenticate_user_case_sensitive(us, email, password) ==
    LET user == select_user_by_email(us, email)
    IN IF user = None
       THEN [error |-> "AuthenticationError", message |-> "Invalid email or password",
             user |-> None]
       ELSE IF ~verify_password(password, user[1].password_hash)
       THEN [error |-> "AuthenticationError", message |-> "Invalid email or password",
             user |-> None]
       ELSE [error |-> "", message |-> "", user |-> user]

\* authenticate_user, lines 97-109
authenticate_user(us, email, password) ==
    LET user == select_user_by_email(us, Lower(email))
    IN IF user = None
       THEN [error |-> "AuthenticationError", message |-> "Invalid email or password",
             user |-> None]
       ELSE IF ~verify_password(password, user[1].password_hash)
       THEN [error |-> "AuthenticationError", message |-> "Invalid email or password",
             user |-> None]
       ELSE [error |-> "", message |-> "", user |-> user]

(***************************************************************************)
(* api/deps.py.                                                            *)
(***************************************************************************)
\* main.py generic_exception_handler: what an uncaught exception becomes
InternalServerError ==
    HTTPException(HTTP_500_INTERNAL_SERVER_ERROR, "Internal server error")

\* the claims read without verification (jwt.get_unverified_claims)
get_current_user_unverified(token, t) ==
    IF ~token.wf \/ token.payload.user_id = None
    THEN [ok |-> FALSE, user_id |-> 0,
          error |-> [HTTPException(HTTP_401_UNAUTHORIZED, "Invalid token payload")
                         EXCEPT !.www_authenticate = TRUE]]
    ELSE [ok |-> TRUE, user_id |-> token.payload.user_id[1], error |-> NoResp]

\* get_current_user: {"user_id": ...} or HTTPException 401
get_current_user(token, t) ==
    LET v == verify_token(token, t)
        payload == v.payload
    IN IF v.raised # "" THEN [ok |-> FALSE, user_id |-> 0, error |-> InternalServerError]
       ELSE IF payload = None
       THEN [ok |-> FALSE, user_id |-> 0,
             error |-> [HTTPException(HTTP_401_UNAUTHORIZED, "Invalid or expired token")
                            EXCEPT !.www_authenticate = TRUE]]
       ELSE IF payload[1].user_id = None
       THEN [ok |-> FALSE, user_id |-> 0,
             error |-> [HTTPException(HTTP_401_UNAUTHORIZED, "Invalid token payload")
                            EXCEPT !.www_authenticate = TRUE]]
       ELSE [ok |-> TRUE, user_id |-> payload[1].user_id[1], error |-> NoResp]

(***************************************************************************)
(* api/routes/auth.py: one action per endpoint.                            *)
(***************************************************************************)
\* what a request leaves alone when it writes nothing
NoWrite == UNCHANGED <<users, user_seq, tasks, task_seq, now, issued, procs>>

Reject(r) == resp' = r /\ fetched' = {} /\ NoWrite

\* the two tokens of a signup or signin response
IssuePair(access_token, refresh_token, t, u) ==
    {Issue("access", access_token, t, u), Issue("refresh", refresh_token, t, u)}

\* the model follows at most MaxIssued tokens
CanIssue(new) == Cardinality(issued \cup new) <= MaxIssued

signup(email, password, name, salt) ==
    /\ req' = [Request("signup") EXCEPT !.email = email, !.password = password,
                                        !.name = name]
    /\ IF ~email_format_ok(email) THEN Reject(ValidationErrorResponse("Invalid email format"))
       ELSE IF ~password_length_ok(password)
       THEN Reject(ValidationErrorResponse("Password must be at least 8 characters"))
       ELSE IF ~name_ok(name) THEN Reject(ValidationErrorResponse("Name cannot be empty"))
       ELSE
         LET r == create_user(users, user_seq, validate_email_format(email), password,
                              validate_name(name), salt, now)
         IN IF r.error = "ConflictError"
            THEN Reject(HTTPException(HTTP_409_CONFLICT, r.message))
            ELSE
              LET user == r.user[1]
                  access_token == create_access_token([user_id |-> Some(user.id)], now)
                  refresh_token == create_refresh_token([user_id |-> Some(user.id)], now)
              IN /\ Cardinality(DOMAIN users) < MaxUsers
                 /\ CanIssue(IssuePair(access_token, refresh_token, now, user.id))
                 /\ users' = r.users
                 /\ user_seq' = r.seq
                 /\ issued' = issued \cup IssuePair(access_token, refresh_token, now, user.id)
                 /\ resp' = AuthResponse(HTTP_201_CREATED, user, access_token, refresh_token)
                 /\ fetched' = {}
                 /\ UNCHANGED <<tasks, task_seq, now, procs>>

\* signin, lines 128-157: the response, and the tokens it hands out
signin_response(us, email, password, t) ==
    IF ~email_format_ok(email)
    THEN [resp |-> ValidationErrorResponse("Invalid email format"), issue |-> {}]
    ELSE
      LET r == authenticate_user(us, normalize_email(email), password)
      IN IF r.error = "AuthenticationError"
         THEN [resp |-> HTTPException(HTTP_401_UNAUTHORIZED, r.message), issue |-> {}]
         ELSE
           LET user == r.user[1]
               access_token == create_access_token([user_id |-> Some(user.id)], t)
               refresh_token == create_refresh_token([user_id |-> Some(user.id)], t)
           IN [resp |-> AuthResponse(HTTP_200_OK, user, access_token, refresh_token),
               issue |-> IssuePair(access_token, refresh_token, t, user.id)]

signin(email, password) ==
    /\ req' = [Request("signin") EXCEPT !.email = email, !.password = password]
    /\ LET r == signin_response(users, email, password, now)
       IN /\ CanIssue(r.issue)
          /\ issued' = issued \cup r.issue
          /\ resp' = r.resp
          /\ fetched' = {}
          /\ UNCHANGED <<users, user_seq, tasks, task_seq, now, procs>>

\* a refresh that does not look for the user_id claim
refresh_without_subject_check(refresh_token) ==
    /\ req' = [Request("refresh") EXCEPT !.token = Some(refresh_token)]
    /\ LET v == verify_token(refresh_token, now)
           payload == v.payload
       IN IF v.raised # "" THEN Reject(InternalServerError)
          ELSE IF payload = None
          THEN Reject(HTTPException(HTTP_401_UNAUTHORIZED, "Invalid or expired refresh token"))
          ELSE
            LET access_token == create_access_token([user_id |-> payload[1].user_id], now)
                u == IF payload[1].user_id = None THEN 0 ELSE payload[1].user_id[1]
                new == {Issue("access", access_token, now, u)}
            IN /\ CanIssue(new)
               /\ issued' = issued \cup new
               /\ resp' = RefreshResponse(access_token)
               /\ fetched' = {}
               /\ UNCHANGED <<users, user_seq, tasks, task_seq, now, procs>>

\* a refresh that rotates: it hands out a new refresh token as well
refresh_rotating(refresh_token) ==
    /\ req' = [Request("refresh") EXCEPT !.token = Some(refresh_token)]
    /\ LET v == verify_token(refresh_token, now)
           payload == v.payload
       IN IF v.raised # "" THEN Reject(InternalServerError)
          ELSE IF payload = None
          THEN Reject(HTTPException(HTTP_401_UNAUTHORIZED, "Invalid or expired refresh token"))
          ELSE IF payload[1].user_id = None
          THEN Reject(HTTPException(HTTP_401_UNAUTHORIZED, "Invalid token payload"))
          ELSE
            LET access_token == create_access_token([user_id |-> payload[1].user_id], now)
                rotated == create_refresh_token([user_id |-> payload[1].user_id], now)
                new == IssuePair(access_token, rotated, now, payload[1].user_id[1])
            IN /\ CanIssue(new)
               /\ issued' = issued \cup new
               /\ resp' = [RefreshResponse(access_token) EXCEPT
                              !.refresh_token = Some(rotated)]
               /\ fetched' = {}
               /\ UNCHANGED <<users, user_seq, tasks, task_seq, now, procs>>

\* a refresh that accepts only what was handed out as a refresh token
refresh_refusing_access_tokens(refresh_token) ==
    /\ req' = [Request("refresh") EXCEPT !.token = Some(refresh_token)]
    /\ LET v == verify_token(refresh_token, now)
           payload == v.payload
       IN IF v.raised # "" THEN Reject(InternalServerError)
          ELSE IF payload = None
          THEN Reject(HTTPException(HTTP_401_UNAUTHORIZED, "Invalid or expired refresh token"))
          ELSE IF payload[1].user_id = None
          THEN Reject(HTTPException(HTTP_401_UNAUTHORIZED, "Invalid token payload"))
          ELSE IF ~\E i \in issued : i.kind = "refresh" /\ i.token = refresh_token
          THEN Reject(HTTPException(HTTP_401_UNAUTHORIZED, "Invalid or expired refresh token"))
          ELSE
            LET access_token == create_access_token([user_id |-> payload[1].user_id], now)
                new == {Issue("access", access_token, now, payload[1].user_id[1])}
            IN /\ CanIssue(new)
               /\ issued' = issued \cup new
               /\ resp' = RefreshResponse(access_token)
               /\ fetched' = {}
               /\ UNCHANGED <<users, user_seq, tasks, task_seq, now, procs>>

refresh(refresh_token) ==
    /\ req' = [Request("refresh") EXCEPT !.token = Some(refresh_token)]
    /\ LET v == verify_token(refresh_token, now)
           payload == v.payload
       IN IF v.raised # "" THEN Reject(InternalServerError)
          ELSE IF payload = None
          THEN Reject(HTTPException(HTTP_401_UNAUTHORIZED, "Invalid or expired refresh token"))
          ELSE IF payload[1].user_id = None
          THEN Reject(HTTPException(HTTP_401_UNAUTHORIZED, "Invalid token payload"))
          ELSE
            LET access_token == create_access_token([user_id |-> payload[1].user_id], now)
                new == {Issue("access", access_token, now, payload[1].user_id[1])}
            IN /\ CanIssue(new)
               /\ issued' = issued \cup new
               /\ resp' = RefreshResponse(access_token)
               /\ fetched' = {}
               /\ UNCHANGED <<users, user_seq, tasks, task_seq, now, procs>>

signout(token) ==
    /\ req' = [Request("signout") EXCEPT !.token = Some(token)]
    /\ LET current_user == get_current_user(token, now)
       IN IF ~current_user.ok THEN Reject(current_user.error)
          ELSE Reject(MessageResponse("Successfully signed out"))

(***************************************************************************)
(* schemas/task.py: request validation (CreateTaskRequest and              *)
(* UpdateTaskRequest carry the same two validators).                       *)
(***************************************************************************)
\* a title check that does not strip before it looks for emptiness
title_ok_unstripped(v) == v # <<>>

\* validate_title: reject a title that is empty after strip(), else strip()
title_ok(v) == ~(v = <<>> \/ Strip(v) = <<>>)
validate_title(v) == Strip(v)

\* a validator that hands the description on as it came
validate_description_unchanged(v) == v

\* validate_description: None stays None, blank becomes None, else strip()
validate_description(v) ==
    IF v # None
    THEN IF Strip(v[1]) # <<>> THEN Some(Strip(v[1])) ELSE None
    ELSE v

(***************************************************************************)
(* services/task_service.py.                                               *)
(***************************************************************************)
\* Python truthiness of an Optional[str]: None and "" are false
Truthy(description) == description # None /\ description[1] # <<>>

\* Task(title=..., description=..., completed=False, user_id=...)
NewTask(title, description, user_id, t) ==
    [id |-> 0, title |-> title, description |-> description, completed |-> FALSE,
     user_id |-> user_id, created_at |-> t, updated_at |-> t]

\* an insert that returns the object as it was before the database filled
\* in its id
insert_task_without_refresh(ts, seq, row, us) ==
    IF row.user_id \notin DOMAIN us
    THEN [ok |-> FALSE, tasks |-> ts, seq |-> seq + 1, task |-> row]
    ELSE [ok |-> TRUE,
          tasks |-> ts @@ ((seq + 1) :> [row EXCEPT !.id = seq + 1]),
          seq |-> seq + 1,
          task |-> row]

\* db.add(task); db.commit(); db.refresh(task): the row takes the next id of
\* the sequence; tasks.user_id is a foreign key to users.id (models/task.py)
insert_task(ts, seq, row, us) ==
    IF row.user_id \notin DOMAIN us
    THEN [ok |-> FALSE, tasks |-> ts, seq |-> seq + 1, task |-> row]
    ELSE [ok |-> TRUE,
          tasks |-> ts @@ ((seq + 1) :> [row EXCEPT !.id = seq + 1]),
          seq |-> seq + 1,
          task |-> [row EXCEPT !.id = seq + 1]]

\* create_task, lines 47-58
create_task(ts, seq, title, description, user_id, t, us) ==
    insert_task(ts, seq,
                NewTask(Strip(title),
                        IF Truthy(description) THEN Some(Strip(description[1])) ELSE None,
                        user_id, t),
                us)

\* a select without the where clause
get_user_tasks_all(ts, user_id) == {ts[i] : i \in DOMAIN ts}

\* get_user_tasks, lines 80-82: select(Task).where(Task.user_id == user_id)
get_user_tasks(ts, user_id) == {ts[i] : i \in {j \in DOMAIN ts : ts[j].user_id = user_id}}

\* a lookup that filters on the id alone
get_task_by_id_any_owner(ts, task_id, user_id) ==
    LET hit == {i \in DOMAIN ts : ts[i].id = task_id}
    IN IF hit = {} THEN None ELSE Some(ts[CHOOSE i \in hit : TRUE])

\* get_task_by_id, lines 106-111: one query on id and user_id, .first()
get_task_by_id(ts, task_id, user_id) ==
    LET hit == {i \in DOMAIN ts : ts[i].id = task_id /\ ts[i].user_id = user_id}
    IN IF hit = {} THEN None ELSE Some(ts[CHOOSE i \in hit : TRUE])

NotFoundError(ts, read) ==
    [error |-> "NotFoundError", message |-> "Task not found", tasks |-> ts,
     task |-> None, fetched |-> read]

TaskResult(ts, task, read) ==
    [error |-> "", message |-> "", tasks |-> ts, task |-> task, fetched |-> read]

\* the rows a query result holds
Rows(found) == {found[i] : i \in DOMAIN found}

\* an update that writes the whole row anew, completed included
update_task_resetting_completed(ts, task_id, user_id, title, description, t) ==
    LET task == get_task_by_id(ts, task_id, user_id)
    IN IF task = None THEN NotFoundError(ts, Rows(task))
       ELSE
         LET new == [task[1] EXCEPT
                        !.title = Strip(title),
                        !.description = IF Truthy(description)
                                        THEN Some(Strip(description[1])) ELSE None,
                        !.completed = FALSE,
                        !.updated_at = t]
         IN TaskResult([ts EXCEPT ![new.id] = new], Some(new), Rows(task))

\* update_task, lines 146-159
update_task(ts, task_id, user_id, title, description, t) ==
    LET task == get_task_by_id(ts, task_id, user_id)
    IN IF task = None THEN NotFoundError(ts, Rows(task))
       ELSE
         LET new == [task[1] EXCEPT
                        !.title = Strip(title),
                        !.description = IF Truthy(description)
                                        THEN Some(Strip(description[1])) ELSE None,
                        !.updated_at = t]
         IN TaskResult([ts EXCEPT ![new.id] = new], Some(new), Rows(task))

\* a toggle that marks the task completed whatever it was
toggle_task_completion_sets_true(ts, task_id, user_id, t) ==
    LET task == get_task_by_id(ts, task_id, user_id)
    IN IF task = None THEN NotFoundError(ts, Rows(task))
       ELSE
         LET new == [task[1] EXCEPT !.completed = TRUE, !.updated_at = t]
         IN TaskResult([ts EXCEPT ![new.id] = new], Some(new), Rows(task))

\* a toggle that leaves updated_at alone
toggle_task_completion_keeps_stamp(ts, task_id, user_id, t) ==
    LET task == get_task_by_id(ts, task_id, user_id)
    IN IF task = None THEN NotFoundError(ts, Rows(task))
       ELSE
         LET new == [task[1] EXCEPT !.completed = ~task[1].completed]
         IN TaskResult([ts EXCEPT ![new.id] = new], Some(new), Rows(task))

\* toggle_task_completion, lines 185-197
toggle_task_completion(ts, task_id, user_id, t) ==
    LET task == get_task_by_id(ts, task_id, user_id)
    IN IF task = None THEN NotFoundError(ts, Rows(task))
       ELSE
         LET new == [task[1] EXCEPT !.completed = ~task[1].completed,
                                    !.updated_at = t]
         IN TaskResult([ts EXCEPT ![new.id] = new], Some(new), Rows(task))

\* a delete that looks the row up by id alone
delete_task_by_id_only(ts, task_id, user_id) ==
    LET task == get_task_by_id_any_owner(ts, task_id, user_id)
    IN IF task = None THEN NotFoundError(ts, Rows(task))
       ELSE TaskResult([i \in DOMAIN ts \ {task[1].id} |-> ts[i]], None, Rows(task))

\* a delete that removes every task of the caller
delete_task_all_of_owner(ts, task_id, user_id) ==
    LET task == get_task_by_id(ts, task_id, user_id)
    IN IF task = None THEN NotFoundError(ts, Rows(task))
       ELSE TaskResult([i \in {j \in DOMAIN ts : ts[j].user_id # user_id} |-> ts[i]],
                       None, Rows(task))

\* delete_task, lines 220-226
delete_task(ts, task_id, user_id) ==
    LET task == get_task_by_id(ts, task_id, user_id)
    IN IF task = None THEN NotFoundError(ts, Rows(task))
       ELSE TaskResult([i \in DOMAIN ts \ {task[1].id} |-> ts[i]], None, Rows(task))

(***************************************************************************)
(* api/routes/tasks.py: one action per endpoint.  Every endpoint depends   *)
(* on get_current_user, which is resolved before the endpoint body runs.   *)
(***************************************************************************)
\* schemas/task.py TaskResponse: every column of the row
TaskResponse(task) ==
    [id |-> task.id, title |-> task.title, description |-> task.description,
     completed |-> task.completed, user_id |-> task.user_id,
     created_at |-> task.created_at, updated_at |-> task.updated_at]

TasksBody(status_code, body) == [NoResp EXCEPT !.status = status_code, !.tasks = body]

\* the orders in which a query without ORDER BY can return a set of rows
Orderings(rows) ==
    {q \in [1..Cardinality(rows) -> rows] : \A r \in rows : \E i \in DOMAIN q : q[i] = r}

list_tasks(token) ==
    /\ req' = [Request("list") EXCEPT !.token = Some(token)]
    /\ LET current_user == get_current_user(token, now)
       IN IF ~current_user.ok THEN Reject(current_user.error)
          ELSE
            LET found == get_user_tasks(tasks, current_user.user_id)
            IN /\ \E q \in Orderings(found) :
                     resp' = TasksBody(HTTP_200_OK, [i \in DOMAIN q |-> TaskResponse(q[i])])
               /\ fetched' = found
               /\ NoWrite

\* the owner taken from the request body
task_owner_from_body(current_user, body_user_id) == body_user_id

\* create_new_task, line 105: user_id = current_user["user_id"]; a user_id
\* field in the request body is no field of CreateTaskRequest and is dropped
task_owner(current_user, body_user_id) == current_user.user_id

create_new_task(token, title, description, body_user_id) ==
    /\ req' = [Request("create") EXCEPT !.token = Some(token), !.title = title,
                                        !.description = description,
                                        !.body_user_id = body_user_id]
    /\ LET current_user == get_current_user(token, now)
       IN IF ~current_user.ok THEN Reject(current_user.error)
          ELSE IF ~title_ok(title)
          THEN Reject(ValidationErrorResponse("Title cannot be empty"))
          ELSE
            LET r == create_task(tasks, task_seq, validate_title(title),
                                 validate_description(description),
                                 task_owner(current_user, body_user_id), now, users)
            IN IF ~r.ok
               THEN \* main.py integrity_exception_handler
                    /\ resp' = HTTPException(HTTP_409_CONFLICT, "Data integrity error")
                    /\ fetched' = {}
                    /\ task_seq' = r.seq
                    /\ UNCHANGED <<users, user_seq, tasks, now, issued, procs>>
               ELSE /\ task_seq < MaxTasks
                    /\ tasks' = r.tasks
                    /\ task_seq' = r.seq
                    /\ resp' = TasksBody(HTTP_201_CREATED, <<TaskResponse(r.task)>>)
                    /\ fetched' = {}
                    /\ UNCHANGED <<users, user_seq, now, issued, procs>>

\* get_task, lines 145-155, for a verified caller
get_task_response(ts, task_id, user_id) ==
    LET task == get_task_by_id(ts, task_id, user_id)
    IN [resp |-> IF task = None
                 THEN HTTPException(HTTP_404_NOT_FOUND, "Task not found")
                 ELSE TasksBody(HTTP_200_OK, <<TaskResponse(task[1])>>),
        fetched |-> Rows(task)]

get_task(token, task_id) ==
    /\ req' = [Request("get") EXCEPT !.token = Some(token), !.task_id = task_id]
    /\ LET current_user == get_current_user(token, now)
       IN IF ~current_user.ok THEN Reject(current_user.error)
          ELSE
            LET r == get_task_response(tasks, task_id, current_user.user_id)
            IN /\ resp' = r.resp
               /\ fetched' = r.fetched
               /\ NoWrite

\* the three writing endpoints after the service call returned r
Written(r, status_code) ==
    /\ resp' = IF r.error = "NotFoundError"
               THEN HTTPException(HTTP_404_NOT_FOUND, r.message)
               ELSE TasksBody(status_code,
                              IF r.task = None THEN <<>> ELSE <<TaskResponse(r.task[1])>>)
    /\ tasks' = r.tasks
    /\ fetched' = r.fetched
    /\ UNCHANGED <<users, user_seq, task_seq, now, issued, procs>>

update_existing_task(token, task_id, title, description) ==
    /\ req' = [Request("update") EXCEPT !.token = Some(token), !.task_id = task_id,
                                        !.title = title, !.description = description]
    /\ LET current_user == get_current_user(token, now)
       IN IF ~current_user.ok THEN Reject(current_user.error)
          ELSE IF ~title_ok(title)
          THEN Reject(ValidationErrorResponse("Title cannot be empty"))
          ELSE Written(update_task(tasks, task_id, current_user.user_id,
                                   validate_title(title),
                                   validate_description(description), now),
                       HTTP_200_OK)

toggle_task(token, task_id) ==
    /\ req' = [Request("toggle") EXCEPT !.token = Some(token), !.task_id = task_id]
    /\ LET current_user == get_current_user(token, now)
       IN IF ~current_user.ok THEN Reject(current_user.error)
          ELSE Written(toggle_task_completion(tasks, task_id, current_user.user_id, now),
                       HTTP_200_OK)

delete_existing_task(token, task_id) ==
    /\ req' = [Request("delete") EXCEPT !.token = Some(token), !.task_id = task_id]
    /\ LET current_user == get_current_user(token, now)
       IN IF ~current_user.ok THEN Reject(current_user.error)
          ELSE Written(delete_task(tasks, task_id, current_user.user_id),
                       HTTP_204_NO_CONTENT)

(***************************************************************************)
(* The clock, and the end of a request.                                    *)
(***************************************************************************)
Idle == req = NoReq

\* d ticks pass while no request is being handled
Tick(d) ==
    /\ Idle
    /\ now + d <= MaxTime
    /\ now' = now + d
    /\ UNCHANGED <<users, user_seq, tasks, task_seq, issued, req, resp, fetched, procs>>

\* the response has been sent; the server waits for the next request
Respond ==
    /\ ~Idle
    /\ req' = NoReq
    /\ resp' = NoResp
    /\ fetched' = {}
    /\ NoWrite

(***************************************************************************)
(* Init: the state of a fresh deployment (create_db_and_tables on empty    *)
(* tables).                                                                *)
(***************************************************************************)
Init ==
    /\ users = <<>>
    /\ user_seq = 0
    /\ tasks = <<>>
    /\ task_seq = 0
    /\ now = 0
    /\ issued = {}
    /\ req = NoReq
    /\ resp = NoResp
    /\ fetched = {}
    /\ procs = <<>>

(***************************************************************************)
(* SpecAuth: the auth endpoints alone, every kind of token, the clock in   *)
(* single ticks.                                                           *)
(***************************************************************************)
GoodName == <<" ", "n">>
SignupInputs ==
    {<<e, "password1", GoodName>> : e \in RawEmails}
        \cup {<<<<"a">>, "short", GoodName>>, <<<<"a">>, "password1", <<" ">>>>}
SigninInputs ==
    {<<e, "password1">> : e \in RawEmails} \cup {<<<<"a">>, "password2">>}

Signup == Idle /\ \E i \in SignupInputs, salt \in Salts : signup(i[1], i[2], i[3], salt)
Signin == Idle /\ \E i \in SigninInputs : signin(i[1], i[2])
Refresh == Idle /\ \E token \in Presentable : refresh(token)
Signout == Idle /\ \E token \in Presentable : signout(token)
TickOne == Tick(1)

NextAuth ==
    \/ Signup
    \/ Signin
    \/ Refresh
    \/ Signout
    \/ Respond
    \/ TickOne

SpecAuth == Init /\ [][NextAuth]_vars

(***************************************************************************)
(* Spec: the whole API, requests handled one at a time.  The clock moves   *)
(* in steps of one access-token lifetime plus a second, so that a token    *)
(* issued before a step has expired after it.                              *)
(***************************************************************************)
Bearers == IssuedTokens \cup {Malformed}
TaskIds == 1..(MaxTasks + 1)
CreateInputs ==
    {<<<<"t">>, None, 1>>, <<<<" ", "t">>, Some(<<"d", " ">>), 2>>,
     <<<<"t">>, Some(<<" ">>), 1>>, <<<<"t">>, Some(<<>>), 1>>,
     <<<<" ">>, None, 2>>}
UpdateInputs ==
    {<<id, <<"u", " ">>, Some(<<" ", "d">>)>> : id \in TaskIds}
        \cup {<<1, <<"t">>, None>>, <<1, <<"t">>, Some(<<" ">>)>>,
              <<1, <<"t">>, Some(<<>>)>>, <<1, <<" ">>, None>>}
LifetimeStep == AccessLifeTicks + TicksPerSecond

SignupUser ==
    Idle /\ \E e \in {<<"a">>, <<"A">>, <<"b">>}, salt \in Salts :
                signup(e, "password1", GoodName, salt)
SigninUser == Idle /\ \E i \in {<<<<"A">>, "password1">>, <<<<"a">>, "password2">>} :
                signin(i[1], i[2])
RefreshToken == Idle /\ \E token \in Bearers : refresh(token)
SignoutUser == Idle /\ \E token \in Bearers : signout(token)
ListTasks == Idle /\ \E token \in Bearers : list_tasks(token)
CreateTask ==
    Idle /\ \E token \in Bearers, i \in CreateInputs :
                create_new_task(token, i[1], i[2], i[3])
GetTask == Idle /\ \E token \in Bearers, id \in TaskIds : get_task(token, id)
UpdateTask ==
    Idle /\ \E token \in Bearers, i \in UpdateInputs :
                update_existing_task(token, i[1], i[2], i[3])
ToggleTask == Idle /\ \E token \in Bearers, id \in TaskIds : toggle_task(token, id)
DeleteTask ==
    Idle /\ \E token \in Bearers, id \in TaskIds : delete_existing_task(token, id)
TickLifetime == Tick(LifetimeStep)

Next ==
    \/ SignupUser
    \/ SigninUser
    \/ RefreshToken
    \/ SignoutUser
    \/ ListTasks
    \/ CreateTask
    \/ GetTask
    \/ UpdateTask
    \/ ToggleTask
    \/ DeleteTask
    \/ Respond
    \/ TickLifetime

Spec == Init /\ [][Next]_vars

(***************************************************************************)
(* SpecSignup: MaxSignups signup requests in flight at once.  Endpoints    *)
(* declared with "def" run in a thread pool, each with its own Session, so *)
(* the steps of create_user interleave: the SELECT of line 46, the bcrypt  *)
(* hash of line 51 and the INSERT/COMMIT of lines 62-63.  The unique index *)
(* on users.email is checked by the database inside the INSERT.            *)
(***************************************************************************)
ValidEmails == {e \in RawEmails : email_format_ok(e)}

InFlight(email) ==
    [pc |-> "check", email |-> email, password |-> "password1", name |-> GoodName,
     hashed |-> None, resp |-> NoResp]

InitSignup ==
    /\ users = <<>>
    /\ user_seq = 0
    /\ tasks = <<>>
    /\ task_seq = 0
    /\ now = 0
    /\ issued = {}
    /\ req = NoReq
    /\ resp = NoResp
    /\ fetched = {}
    /\ procs \in [1..MaxSignups -> {InFlight(e) : e \in ValidEmails}]

Finish(p, r) == procs' = [procs EXCEPT ![p].pc = "done", ![p].resp = r]

\* create_user line 46-48, after SignupRequest validation
signup_check(p) ==
    /\ procs[p].pc = "check"
    /\ IF select_user_by_email(users, Lower(validate_email_format(procs[p].email))) # None
       THEN Finish(p, HTTPException(HTTP_409_CONFLICT,
                                    ConflictError(users, user_seq).message))
       ELSE procs' = [procs EXCEPT ![p].pc = "hash"]
    /\ UNCHANGED <<users, user_seq, tasks, task_seq, now, issued, req, resp, fetched>>

\* create_user line 51
signup_hash(p, salt) ==
    /\ procs[p].pc = "hash"
    /\ procs' = [procs EXCEPT ![p].pc = "insert",
                              ![p].hashed = Some(hash_password(procs[p].password, salt))]
    /\ UNCHANGED <<users, user_seq, tasks, task_seq, now, issued, req, resp, fetched>>

\* create_user lines 54-68, then signup lines 74-95
signup_insert(p) ==
    /\ procs[p].pc = "insert"
    /\ LET r == create_user_insert(users, user_seq,
                                   validate_email_format(procs[p].email),
                                   procs[p].hashed[1], validate_name(procs[p].name), now)
       IN IF r.error = "ConflictError"
          THEN /\ Finish(p, HTTPException(HTTP_409_CONFLICT, r.message))
               /\ user_seq' = r.seq
               /\ UNCHANGED <<users, issued>>
          ELSE IF r.error # ""
          THEN /\ Finish(p, InternalServerError)
               /\ user_seq' = r.seq
               /\ UNCHANGED <<users, issued>>
          ELSE
            LET user == r.user[1]
                access_token == create_access_token([user_id |-> Some(user.id)], now)
                refresh_token == create_refresh_token([user_id |-> Some(user.id)], now)
            IN /\ Cardinality(DOMAIN users) < MaxUsers
               /\ CanIssue(IssuePair(access_token, refresh_token, now, user.id))
               /\ users' = r.users
               /\ user_seq' = r.seq
               /\ issued' = issued \cup IssuePair(access_token, refresh_token, now, user.id)
               /\ Finish(p, AuthResponse(HTTP_201_CREATED, user, access_token,
                                         refresh_token))
    /\ UNCHANGED <<tasks, task_seq, now, req, resp, fetched>>

SignupCheck == \E p \in DOMAIN procs : signup_check(p)
SignupHash == \E p \in DOMAIN procs, salt \in Salts : signup_hash(p, salt)
SignupInsert == \E p \in DOMAIN procs : signup_insert(p)

NextSignup ==
    \/ SignupCheck
    \/ SignupHash
    \/ SignupInsert
    \/ SigninUser
    \/ Respond
    \/ TickLifetime

SpecSignup == InitSignup /\ [][NextSignup]_vars

(***************************************************************************)
(* SpecTasks: MaxWriters write requests on one task in flight at once.     *)
(* Endpoints declared with "def" run in a thread pool and get_db gives     *)
(* each request a Session of its own, so the steps of a write interleave:  *)
(* the SELECT of get_task_by_id, the UPDATE or DELETE that db.commit()     *)
(* flushes, and the SELECT of db.refresh().  Between the SELECT and the    *)
(* commit the row lives in the Session as a Python object; the flush       *)
(* writes the attributes that were assigned a new value, WHERE id = the    *)
(* primary key, and the ORM raises StaleDataError when that UPDATE matches *)
(* no row.                                                                 *)
(***************************************************************************)
\* the user and the task the requests are about: one signup, one create
FirstUsers == create_user(<<>>, 0, <<"a">>, "password1", GoodName, "s1", 0).users
FirstTasks == create_task(<<>>, 0, <<"t">>, None, 1, 0, FirstUsers).tasks

\* a write request of verified caller user_id that has not reached the database
Writer(op, task_id, user_id, title, description) ==
    [op |-> op, pc |-> "fetch", task_id |-> task_id, user_id |-> user_id,
     title |-> title, description |-> description,
     task |-> None, dirty |-> {}, raced |-> FALSE, resp |-> NoResp]

WriterInputs ==
    {Writer("toggle", 1, 1, <<>>, None),
     Writer("update", 1, 1, <<"u">>, Some(<<"d">>)),
     Writer("delete", 1, 1, <<>>, None)}

InitTasks ==
    /\ users = FirstUsers
    /\ user_seq = 1
    /\ tasks = FirstTasks
    /\ task_seq = 1
    /\ now = 0
    /\ issued = {}
    /\ req = NoReq
    /\ resp = NoResp
    /\ fetched = {}
    /\ procs \in [1..MaxWriters -> WriterInputs]

\* the attributes of the Session's object that differ from the loaded row
Dirty(loaded, assigned) ==
    {c \in {"title", "description", "completed", "updated_at"} :
        assigned[c] # loaded[c]}

\* lines 146-153, 185-191, 220-223: the SELECT by id and owner, NotFoundError
\* when it finds nothing, else the assignments to the loaded object
write_fetch(p) ==
    /\ procs[p].pc = "fetch"
    /\ LET w == procs[p]
           task == get_task_by_id(tasks, w.task_id, w.user_id)
       IN IF task = None
          THEN Finish(p, HTTPException(HTTP_404_NOT_FOUND, "Task not found"))
          ELSE
            LET assigned ==
                  IF w.op = "toggle"
                  THEN [task[1] EXCEPT !.completed = ~task[1].completed,
                                       !.updated_at = now]
                  ELSE IF w.op = "update"
                  THEN [task[1] EXCEPT
                           !.title = Strip(w.title),
                           !.description = IF Truthy(w.description)
                                           THEN Some(Strip(w.description[1]))
                                           ELSE None,
                           !.updated_at = now]
                  ELSE task[1]
            IN procs' = [procs EXCEPT ![p].pc = "commit",
                                      ![p].task = Some(assigned),
                                      ![p].dirty = Dirty(task[1], assigned)]
    /\ UNCHANGED <<users, user_seq, tasks, task_seq, now, issued, req, resp, fetched>>

\* lines 155-156, 193-194: db.add(task); db.commit().  The UPDATE sets the
\* dirty columns of the row with the object's id; when no row has that id the
\* flush raises StaleDataError, which no handler but the generic one takes.
update_commit(p) ==
    /\ procs[p].pc = "commit"
    /\ procs[p].op \in {"toggle", "update"}
    /\ LET w == procs[p]
           id == w.task[1].id
       IN IF w.dirty = {}
          THEN /\ procs' = [procs EXCEPT ![p].pc = "refresh"]
               /\ tasks' = tasks
          ELSE IF id \notin DOMAIN tasks
          THEN /\ Finish(p, InternalServerError)
               /\ tasks' = tasks
          ELSE /\ tasks' = [tasks EXCEPT ![id] =
                              [c \in DOMAIN tasks[id] |->
                                  IF c \in w.dirty THEN w.task[1][c] ELSE tasks[id][c]]]
               /\ procs' = [procs EXCEPT ![p].pc = "refresh"]
    /\ UNCHANGED <<users, user_seq, task_seq, now, issued, req, resp, fetched>>

\* lines 157-159, 195-197: db.refresh(task) selects the row again; it raises
\* InvalidRequestError when the row is gone.  The endpoint returns the object.
update_refresh(p) ==
    /\ procs[p].pc = "refresh"
    /\ LET id == procs[p].task[1].id
       IN IF id \notin DOMAIN tasks
          THEN Finish(p, InternalServerError)
          ELSE Finish(p, TasksBody(HTTP_200_OK, <<TaskResponse(tasks[id])>>))
    /\ UNCHANGED <<users, user_seq, tasks, task_seq, now, issued, req, resp, fetched>>

\* lines 225-226: db.delete(task); db.commit().  A DELETE that matches no row
\* only warns.  Writers that hold the row between their SELECT and their
\* commit are marked as overtaken by this delete.
delete_commit(p) ==
    /\ procs[p].pc = "commit"
    /\ procs[p].op = "delete"
    /\ LET id == procs[p].task[1].id
       IN /\ tasks' = [i \in DOMAIN tasks \ {id} |-> tasks[i]]
          /\ procs' = [q \in DOMAIN procs |->
                         IF q = p
                         THEN [procs[q] EXCEPT
                                  !.pc = "done",
                                  !.resp = TasksBody(HTTP_204_NO_CONTENT, <<>>)]
                         ELSE IF /\ procs[q].pc = "commit"
                                 /\ procs[q].task[1].id = id
                                 /\ id \in DOMAIN tasks
                         THEN [procs[q] EXCEPT !.raced = TRUE]
                         ELSE procs[q]]
    /\ UNCHANGED <<users, user_seq, task_seq, now, issued, req, resp, fetched>>

WriteFetch == \E p \in DOMAIN procs : write_fetch(p)
UpdateCommit == \E p \in DOMAIN procs : update_commit(p)
UpdateRefresh == \E p \in DOMAIN procs : update_refresh(p)
DeleteCommit == \E p \in DOMAIN procs : delete_commit(p)

NextTasks ==
    \/ WriteFetch
    \/ UpdateCommit
    \/ UpdateRefresh
    \/ DeleteCommit
    \/ TickLifetime

SpecTasks == InitTasks /\ [][NextTasks]_vars

(***************************************************************************)
(* Properties.                                                             *)
(***************************************************************************)
\* what makes a bearer token acceptable at clock reading t, stated on the
\* token itself
SignatureOk(tok) == tok.wf /\ tok.sig = HMAC(BETTER_AUTH_SECRET, tok.payload)
NotExpired(tok, t) == tok.payload.exp = None \/ tok.payload.exp[1] >= timegm(t)
HasSubject(tok) == tok.payload.user_id # None
TokenGood(tok, t) == SignatureOk(tok) /\ NotExpired(tok, t) /\ HasSubject(tok)

\* the verified identity behind request r at clock reading t; 0 when there is none
CallerOf(r, t) ==
    IF r.token # None /\ TokenGood(r.token[1], t) THEN r.token[1].payload.user_id[1] ELSE 0
Caller == CallerOf(req, now)

TaskNotFound == HTTPException(HTTP_404_NOT_FOUND, "Task not found")
WriteOps == {"update", "toggle", "delete"}

\* C1: in every reachable state, get by a user A of a task owned by another
\* user B gives the very response (404, "Task not found") that get by A of an
\* id no task has gives, and the rows fetched by get, update, toggle and
\* delete all belong to the caller.  (The comparison reads the tables alone,
\* so it is made between requests; the response of every get request for a
\* foreign or missing task is examined as well.)
C1_ForeignTaskLooksAbsent ==
    /\ Idle =>
          \A a \in DOMAIN users, t \in DOMAIN tasks, n \in TaskIds \ DOMAIN tasks :
             tasks[t].user_id # a =>
                /\ get_task_response(tasks, t, a) = get_task_response(tasks, n, a)
                /\ get_task_response(tasks, t, a).resp = TaskNotFound
                /\ get_task_response(tasks, t, a).fetched = {}
    /\ (req.op = "get" /\ Caller # 0
          /\ (req.task_id \notin DOMAIN tasks \/ tasks[req.task_id].user_id # Caller))
       => resp = TaskNotFound
    /\ req.op \in {"get"} \cup WriteOps => \A row \in fetched : row.user_id = Caller

C1_Witness ==
    /\ req.op = "get"
    /\ Caller # 0
    /\ req.task_id \in DOMAIN tasks
    /\ tasks[req.task_id].user_id # Caller
    /\ resp = TaskNotFound

\* C2: an update, toggle or delete (with a body that passes validation) whose
\* verified caller is not the owner of the addressed task is answered 404
\* "Task not found" and leaves the tasks table and its id sequence as they were.
C2_NonOwnerWriteRefused ==
    [][
        (/\ Idle
         /\ req'.op \in WriteOps
         /\ CallerOf(req', now) # 0
         /\ req'.task_id \in DOMAIN tasks
         /\ tasks[req'.task_id].user_id # CallerOf(req', now)
         /\ req'.op = "update" => title_ok(req'.title))
        => /\ resp' = TaskNotFound
           /\ tasks' = tasks
           /\ task_seq' = task_seq
    ]_vars

C2_Witness ==
    /\ req.op \in WriteOps
    /\ Caller # 0
    /\ req.task_id \in DOMAIN tasks
    /\ tasks[req.task_id].user_id # Caller
    /\ resp = TaskNotFound

\* the in-flight signups whose email is e once lowercased
SignupsFor(e) == {p \in DOMAIN procs : Lower(procs[p].email) = e}
Succeeded(S) == {p \in S : procs[p].resp.status = HTTP_201_CREATED}

\* C3: of the signups for one email up to letter case, started on a table
\* without that email, no two succeed under any interleaving, every one that
\* has ended ended 201 or 409, and once all have ended exactly one succeeded.
C3_OneSignupWins ==
    \A e \in {Lower(x) : x \in ValidEmails} :
        LET S == SignupsFor(e)
        IN /\ Cardinality(Succeeded(S)) <= 1
           /\ \A p \in S : procs[p].pc = "done" =>
                 procs[p].resp.status \in {HTTP_201_CREATED, HTTP_409_CONFLICT}
           /\ (S # {} /\ \A p \in S : procs[p].pc = "done")
                 => Cardinality(Succeeded(S)) = 1

\* two signups for the same email up to case both found no row before either
\* inserted, and all have ended
C3_Witness ==
    \E p, q \in DOMAIN procs :
        /\ p # q
        /\ procs[p].email # procs[q].email
        /\ Lower(procs[p].email) = Lower(procs[q].email)
        /\ procs[p].resp.status = HTTP_201_CREATED
        /\ procs[q].resp.status = HTTP_409_CONFLICT
        /\ procs[q].hashed # None
        /\ \A r \in DOMAIN procs : procs[r].pc = "done"

\* one row per lowercased email, each email stored in lower case
EmailsUnique ==
    /\ \A i, j \in DOMAIN users :
          Lower(users[i].email) = Lower(users[j].email) => i = j
    /\ \A i \in DOMAIN users : users[i].email = Lower(users[i].email)

\* C4: the users table holds at most one row per lowercased email, every
\* stored email is its own lowercase form, and no step removes a user or
\* changes a stored email.
C4_OneUserPerEmail ==
    /\ EmailsUnique
    /\ [][
          /\ EmailsUnique'
          /\ \A i \in DOMAIN users :
                i \in DOMAIN users' /\ users'[i].email = users[i].email
       ]_vars

\* a signup written in upper case is stored in lower case beside another user
C4_Witness ==
    /\ Cardinality(DOMAIN users) = 2
    /\ \E p \in DOMAIN procs :
          /\ procs[p].email # Lower(procs[p].email)
          /\ procs[p].resp.status = HTTP_201_CREATED
          /\ \E i \in DOMAIN users : users[i].email = Lower(procs[p].email)

\* the datetime at which a token issued at clock reading "at" expires
Expiry(kind, at) == at + (IF kind = "access" THEN AccessLifeTicks ELSE RefreshLifeTicks)
\* verify_token returned the payload of user u / returned None
VerifiesAs(tok, u, t) ==
    LET v == verify_token(tok, t)
    IN v.raised = "" /\ v.payload # None /\ v.payload[1].user_id = Some(u)
Invalid(tok, t) ==
    LET v == verify_token(tok, t)
    IN v.raised = "" /\ v.payload = None

Unauthorized(r) ==
    /\ r.status = HTTP_401_UNAUTHORIZED
    /\ r.detail \in {"Invalid or expired token", "Invalid token payload"}
    /\ r.www_authenticate
    /\ r.user = None /\ r.access_token = None /\ r.refresh_token = None

\* what verification owes one token at the present clock reading
C6_Verified(tok) ==
    LET v == verify_token(tok, now)
        current_user == get_current_user(tok, now)
    IN /\ v.raised = ""
       /\ v.payload # None <=> (SignatureOk(tok) /\ NotExpired(tok, now))
       /\ IF TokenGood(tok, now)
          THEN current_user.ok /\ current_user.user_id = tok.payload.user_id[1]
          ELSE ~current_user.ok /\ Unauthorized(current_user.error)

\* C6: for every token a client can present (issued, malformed, forged,
\* tampered with, without user_id), verify_token raises nothing; it returns
\* None when the token is malformed, its signature does not match or its exp
\* has passed, and get_current_user then answers 401, as it does for a token
\* without user_id; a user_id comes back only from a token that is well
\* signed, unexpired and carries that user_id.  The signout and refresh
\* endpoints never answer 500 and answer 401 to every such token.  (What
\* verification returns depends on the token and the clock alone, so it is
\* examined for every token between requests, and for the token of the
\* request while one is being answered.)
C6_VerificationNeverRaises ==
    /\ Idle => \A tok \in Presentable : C6_Verified(tok)
    /\ req.token # None => C6_Verified(req.token[1])
    /\ req.op \in {"signout", "refresh"} =>
          /\ resp.status # HTTP_500_INTERNAL_SERVER_ERROR
          /\ ~TokenGood(req.token[1], now) =>
                resp.status = HTTP_401_UNAUTHORIZED /\ resp.access_token = None
          /\ resp.status = HTTP_200_OK => TokenGood(req.token[1], now)

\* signout has been refused for a token whose signature does not match while
\* an issued token has expired and another still verifies
C6_Witness ==
    /\ req.op = "signout"
    /\ ~SignatureOk(req.token[1])
    /\ Unauthorized(resp)
    /\ \E tok \in IssuedTokens : ~NotExpired(tok, now)
    /\ \E tok \in IssuedTokens : get_current_user(tok, now).ok

\* the response to a signin that fails authentication
InvalidCredentials == HTTPException(HTTP_401_UNAUTHORIZED, "Invalid email or password")

\* what signin does when authentication fails: that response and no token
SigninRefused == [resp |-> InvalidCredentials, issue |-> {}]
AuthenticationFailed ==
    [error |-> "AuthenticationError", message |-> "Invalid email or password",
     user |-> None]

\* C7: in every state of the users table, signin with the email of a user
\* (in any letter case) and a wrong password, and signin with an email of no
\* user, raise one and the same AuthenticationError with one message and
\* give one and the same 401 response; neither hands out a token.  (The
\* comparison reads the users table alone, so it is made between requests;
\* the response of every failing signin request is examined as well.)
C7_SigninFailuresIdentical ==
    /\ Idle =>
          \A i \in DOMAIN users, wrong \in SigninPasswords :
             ~verify_password(wrong, users[i].password_hash) =>
                \A known \in ValidEmails :
                   Lower(known) = users[i].email =>
                      /\ authenticate_user(users, normalize_email(known), wrong)
                            = AuthenticationFailed
                      /\ signin_response(users, known, wrong, now) = SigninRefused
    /\ Idle =>
          \A unknown \in ValidEmails :
             (\A j \in DOMAIN users : users[j].email # Lower(unknown)) =>
                \A any \in SigninPasswords :
                   /\ authenticate_user(users, normalize_email(unknown), any)
                         = AuthenticationFailed
                   /\ signin_response(users, unknown, any, now) = SigninRefused
    /\ (/\ req.op = "signin"
        /\ email_format_ok(req.email)
        /\ \A i \in DOMAIN users :
              users[i].email = Lower(req.email)
                 => ~verify_password(req.password, users[i].password_hash))
       => resp = InvalidCredentials

\* a wrong password for an existing user has been refused while some other
\* email has no user
C7_Witness ==
    /\ req.op = "signin"
    /\ \E i \in DOMAIN users :
          /\ users[i].email = Lower(req.email)
          /\ ~verify_password(req.password, users[i].password_hash)
    /\ \E e \in ValidEmails : \A j \in DOMAIN users : users[j].email # Lower(e)
    /\ resp = InvalidCredentials

TaskOps == {"list", "create", "get"} \cup WriteOps

\* C8: a request to a task endpoint whose bearer token is malformed, badly
\* signed, expired or without user_id is answered 401 by get_current_user;
\* that request fetches no task row and leaves the tasks table and its id
\* sequence as they were.
C8_BadTokenTouchesNoTask ==
    [][
        (Idle /\ req'.op \in TaskOps /\ ~TokenGood(req'.token[1], now))
        => /\ Unauthorized(resp')
           /\ fetched' = {}
           /\ tasks' = tasks
           /\ task_seq' = task_seq
    ]_vars

\* the owner's expired token has been refused on the owner's own task
C8_Witness ==
    /\ req.op \in {"get"} \cup WriteOps
    /\ SignatureOk(req.token[1]) /\ ~NotExpired(req.token[1], now)
    /\ req.task_id \in DOMAIN tasks
    /\ tasks[req.task_id].user_id = req.token[1].payload.user_id[1]
    /\ Unauthorized(resp)

\* C9: a task row appears only in a create request, under a fresh id and with
\* user_id the user of the request's verified token, whatever user_id the body
\* names; no step of any endpoint changes the user_id of a task that exists.
C9_OwnerSetOnceFromToken ==
    [][
        /\ \A t \in DOMAIN tasks \cap DOMAIN tasks' : tasks'[t].user_id = tasks[t].user_id
        /\ \A t \in DOMAIN tasks' \ DOMAIN tasks :
              /\ t > task_seq
              /\ req'.op = "create"
              /\ CallerOf(req', now) # 0
              /\ tasks'[t].user_id = CallerOf(req', now)
    ]_vars

\* a create whose body names another existing user made a task of the caller,
\* beside a task that has been updated since its creation
C9_Witness ==
    /\ req.op = "create"
    /\ resp.status = HTTP_201_CREATED
    /\ req.body_user_id \in DOMAIN users
    /\ req.body_user_id # Caller
    /\ resp.tasks[1].user_id = Caller
    /\ tasks[resp.tasks[1].id].user_id = Caller
    /\ \E t \in DOMAIN tasks : tasks[t].updated_at # tasks[t].created_at

\* the rows of the tasks table that belong to user u, as the API shows them
OwnedBy(ts, u) == {TaskResponse(ts[t]) : t \in {x \in DOMAIN ts : ts[x].user_id = u}}

\* C10: a list request with a verified token is answered 200 with exactly the
\* caller's rows, each once (the empty list when the caller has none), and
\* changes no table, sequence or token.
C10_ListReturnsOwnTasks ==
    [][
        (Idle /\ req'.op = "list" /\ CallerOf(req', now) # 0)
        => /\ resp'.status = HTTP_200_OK
           /\ {resp'.tasks[i] : i \in DOMAIN resp'.tasks} = OwnedBy(tasks, CallerOf(req', now))
           /\ Len(resp'.tasks) = Cardinality(OwnedBy(tasks, CallerOf(req', now)))
           /\ fetched' = {tasks[t] : t \in {x \in DOMAIN tasks : tasks[x].user_id = CallerOf(req', now)}}
           /\ UNCHANGED <<users, user_seq, tasks, task_seq, issued>>
    ]_vars

\* a list answered with the caller's one task while another user has a task
C10_Witness ==
    /\ req.op = "list"
    /\ Caller # 0
    /\ resp.status = HTTP_200_OK
    /\ Len(resp.tasks) = 1
    /\ resp.tasks[1].user_id = Caller
    /\ \E t \in DOMAIN tasks : tasks[t].user_id # Caller

\* a list answered with the empty list while another user has a task
C10_WitnessEmpty ==
    /\ req.op = "list"
    /\ Caller # 0
    /\ resp.status = HTTP_200_OK
    /\ resp.tasks = <<>>
    /\ tasks # <<>>

\* the 401 of the refresh endpoint: one of its two details and no token
RefreshRefused(r) ==
    /\ r.status = HTTP_401_UNAUTHORIZED
    /\ r.detail \in {"Invalid or expired refresh token", "Invalid token payload"}
    /\ r.user = None /\ r.access_token = None /\ r.refresh_token = None

\* C11: a refresh request whose token is well signed, unexpired and carries a
\* user_id is answered 200 with an access token that verify_token accepts as
\* that same user_id, and that access token is the one token handed out; a
\* refresh request whose token is malformed, badly signed, expired or without
\* user_id is answered 401 and hands out no token.  Neither writes a table.
C11_RefreshKeepsSubject ==
    [][
        (Idle /\ req'.op = "refresh")
        => /\ IF TokenGood(req'.token[1], now)
              THEN /\ resp'.status = HTTP_200_OK
                   /\ resp'.access_token # None
                   /\ VerifiesAs(resp'.access_token[1],
                                 req'.token[1].payload.user_id[1], now)
                   /\ issued' = issued \cup
                         {Issue("access", resp'.access_token[1], now,
                                req'.token[1].payload.user_id[1])}
              ELSE /\ RefreshRefused(resp')
                   /\ issued' = issued
           /\ UNCHANGED <<users, user_seq, tasks, task_seq>>
    ]_vars

\* a refresh token has bought a new access token for its user after the
\* access token issued with it had expired
C11_Witness ==
    /\ req.op = "refresh"
    /\ resp.status = HTTP_200_OK
    /\ \E r, a \in issued :
          /\ r.kind = "refresh" /\ r.token = req.token[1]
          /\ a.kind = "access" /\ a.at = r.at /\ a.user_id = r.user_id
          /\ Invalid(a.token, now)
          /\ VerifiesAs(resp.access_token[1], r.user_id, now)

\* the refresh tokens handed out so far
RefreshTokens == {i \in issued : i.kind = "refresh"}

\* C12: whatever has been issued since (every successful refresh adds an
\* access token to the issued ones), a refresh token handed out by signup or
\* signin still verifies as its user at every clock reading before its
\* expiry; a refresh request that presents it before its expiry is answered
\* 200, and no refresh response carries a refresh token or adds one to the
\* refresh tokens handed out.
C12_RefreshTokenReusable ==
    /\ [](Idle => \A i \in RefreshTokens :
                     now < Expiry("refresh", i.at)
                        => VerifiesAs(i.token, i.user_id, now))
    /\ [](req.op = "refresh" => resp.refresh_token = None)
    /\ [][
           (Idle /\ req'.op = "refresh")
           => /\ RefreshTokens' = RefreshTokens
              /\ (\E i \in RefreshTokens :
                     i.token = req'.token[1] /\ now < Expiry("refresh", i.at))
                 => resp'.status = HTTP_200_OK
       ]_vars

\* the one refresh token handed out is accepted again, later than a refresh
\* that had already minted an access token from it
C12_Witness ==
    /\ req.op = "refresh"
    /\ resp.status = HTTP_200_OK
    /\ Cardinality(RefreshTokens) = 1
    /\ \E r \in RefreshTokens, a \in issued :
          /\ r.token = req.token[1]
          /\ a.kind = "access" /\ a.user_id = r.user_id
          /\ r.at < a.at /\ a.at < now
          /\ resp.access_token[1] # a.token

\* C13: no step of any operation (signout with that token, signin, signup,
\* refresh, the passing of time) makes an issued token stop verifying before
\* its expiry: a token that verified as its user before the step is still
\* among the issued ones and verifies as its user after it, as long as the
\* clock after the step is before the token's expiry.  A signout request,
\* accepted or refused, writes no table, draws from no sequence and hands out
\* no token, and the token it accepted verifies afterwards.
C13_NoRevocation ==
    /\ [](req.op = "signout" /\ resp.status = HTTP_200_OK
             => VerifiesAs(req.token[1], Caller, now))
    /\ [][
           /\ \A i \in issued :
                 (VerifiesAs(i.token, i.user_id, now) /\ now' < Expiry(i.kind, i.at))
                    => i \in issued' /\ VerifiesAs(i.token, i.user_id, now')
           /\ (Idle /\ req'.op = "signout")
                 => UNCHANGED <<users, user_seq, tasks, task_seq, issued, now>>
       ]_vars

\* a signout has been accepted for a token that had been handed out before
\* the latest signin or refresh, and every unexpired issued token verifies
C13_Witness ==
    /\ req.op = "signout"
    /\ resp = MessageResponse("Successfully signed out")
    /\ \E i, j \in issued :
          /\ i.token = req.token[1]
          /\ i.at < j.at
          /\ j.user_id = i.user_id
    /\ \A i \in issued :
          now < Expiry(i.kind, i.at) => VerifiesAs(i.token, i.user_id, now)
    /\ \E i \in issued : Invalid(i.token, now)

\* the user a refresh token was handed out to, when tok is an unexpired one;
\* 0 otherwise
RefreshBearer(tok, t) ==
    IF \E i \in RefreshTokens : i.token = tok /\ NotExpired(tok, t)
    THEN (CHOOSE i \in RefreshTokens : i.token = tok).user_id
    ELSE 0

\* C14: the payload of a token of either kind has the claims user_id and exp
\* and no other, so get_current_user gives an unexpired refresh token the
\* answer it gives an access token signed now for the same user.  A request
\* to a task endpoint that presents an unexpired refresh token is not answered
\* 401: it acts for the user of that token (it reads only that user's rows,
\* a task it creates belongs to that user, and that user's own task is found).
C14_RefreshTokenAsBearer ==
    /\ [](Idle => \A i \in issued :
                     /\ DOMAIN i.token.payload = {"user_id", "exp"}
                     /\ (i.kind = "refresh" /\ NotExpired(i.token, now))
                        => /\ get_current_user(i.token, now).ok
                           /\ get_current_user(i.token, now)
                                 = get_current_user(
                                      create_access_token([user_id |-> Some(i.user_id)],
                                                          now), now))
    /\ [][
           (Idle /\ req'.op \in TaskOps /\ RefreshBearer(req'.token[1], now) # 0)
           => /\ resp'.status \notin {HTTP_401_UNAUTHORIZED,
                                      HTTP_500_INTERNAL_SERVER_ERROR}
              /\ CallerOf(req', now) = RefreshBearer(req'.token[1], now)
              /\ \A row \in fetched' : row.user_id = RefreshBearer(req'.token[1], now)
              /\ resp'.status = HTTP_201_CREATED
                    => tasks'[resp'.tasks[1].id].user_id
                          = RefreshBearer(req'.token[1], now)
              /\ (/\ req'.op \in {"get"} \cup WriteOps
                  /\ req'.task_id \in DOMAIN tasks
                  /\ tasks[req'.task_id].user_id = RefreshBearer(req'.token[1], now))
                 => resp'.status # HTTP_404_NOT_FOUND
       ]_vars

\* a refresh token, presented as bearer after the access token issued with it
\* had expired, has changed its user's task
C14_Witness ==
    /\ req.op \in {"update", "toggle"}
    /\ resp.status = HTTP_200_OK
    /\ \E r, a \in issued :
          /\ r.kind = "refresh" /\ r.token = req.token[1]
          /\ a.kind = "access" /\ a.at = r.at /\ a.user_id = r.user_id
          /\ Invalid(a.token, now)
          /\ resp.tasks[1].user_id = r.user_id
    /\ \A a \in issued : a.kind = "access" => a.token # req.token[1]

\* the tasks table after the owner of task id has toggled it at clock reading t
Toggled(ts, id, t) == toggle_task_completion(ts, id, ts[id].user_id, t).tasks

\* C15: a toggle request that is answered 200 leaves the task with the
\* negation of the completed value it had, and answers with that value; and
\* in every state of the tasks table, two toggles of a task by its owner, one
\* after the other, at any two clock readings, leave completed as it was.
C15_ToggleTwiceRestores ==
    /\ [](Idle => \A id \in DOMAIN tasks :
                     \A t1, t2 \in {now, MaxTime} :
                        /\ Toggled(tasks, id, t1)[id].completed = ~tasks[id].completed
                        /\ Toggled(Toggled(tasks, id, t1), id, t2)[id].completed
                              = tasks[id].completed)
    /\ [][
           (Idle /\ req'.op = "toggle" /\ resp'.status = HTTP_200_OK)
           => /\ tasks'[req'.task_id].completed = ~tasks[req'.task_id].completed
              /\ resp'.tasks[1].completed = ~tasks[req'.task_id].completed
              /\ resp'.tasks[1].id = req'.task_id
       ]_vars

\* a toggle has brought a task back to not completed: the second toggle of
\* that task
C15_Witness ==
    /\ req.op = "toggle"
    /\ resp.status = HTTP_200_OK
    /\ resp.tasks[1].completed = FALSE
    /\ tasks[req.task_id].completed = FALSE
    /\ Toggled(tasks, req.task_id, now)[req.task_id].completed = TRUE

\* C16 as stated: every toggle answered 200 leaves updated_at strictly
\* greater than it was, also at the clock reading of the previous write.
C16_StrictlyIncreases ==
    [][
        (Idle /\ req'.op = "toggle" /\ resp'.status = HTTP_200_OK)
        => tasks'[req'.task_id].updated_at > tasks[req'.task_id].updated_at
    ]_vars

\* C16 amended: every toggle answered 200 sets updated_at to the clock
\* reading of the toggle and answers with it: updated_at is then strictly
\* greater than it was when that reading is later than the previous
\* updated_at, and equal to it when the toggle happens at the clock reading
\* of the previous write; created_at stays as it was.
C16_ToggleStampsClock ==
    [][
        (Idle /\ req'.op = "toggle" /\ resp'.status = HTTP_200_OK)
        => /\ tasks'[req'.task_id].updated_at = now
           /\ resp'.tasks[1].updated_at = now
           /\ tasks'[req'.task_id].created_at = tasks[req'.task_id].created_at
           /\ now > tasks[req'.task_id].updated_at
                 => tasks'[req'.task_id].updated_at > tasks[req'.task_id].updated_at
           /\ now = tasks[req'.task_id].updated_at
                 => tasks'[req'.task_id].updated_at = tasks[req'.task_id].updated_at
    ]_vars

\* a toggle at a later clock reading than the task's creation has moved
\* updated_at past created_at
C16_Witness ==
    /\ req.op = "toggle"
    /\ resp.status = HTTP_200_OK
    /\ tasks[req.task_id].updated_at = now
    /\ tasks[req.task_id].created_at < now
    /\ resp.tasks[1].updated_at > resp.tasks[1].created_at

\* C17: when a create request is answered 201 with a task, a get of that
\* task's id by the same caller on the tables the create left behind is
\* answered 200 with a task equal to the created one in id, title,
\* description, completed, user_id, created_at and updated_at; and every get
\* answered 200 shows the stored row of the requested id in all its columns.
C17_CreateThenGet ==
    /\ [](req.op = "get" /\ resp.status = HTTP_200_OK
             => resp.tasks = <<TaskResponse(tasks[req.task_id])>>)
    /\ [][
           (Idle /\ req'.op = "create" /\ resp'.status = HTTP_201_CREATED)
           => /\ Len(resp'.tasks) = 1
              /\ DOMAIN resp'.tasks[1] = {"id", "title", "description", "completed",
                                          "user_id", "created_at", "updated_at"}
              /\ get_task_response(tasks', resp'.tasks[1].id, CallerOf(req', now)).resp
                    = TasksBody(HTTP_200_OK, <<resp'.tasks[1]>>)
       ]_vars

\* the second task of the table has been created with a description, and a
\* get by its owner returns what the create returned
C17_Witness ==
    /\ req.op = "create"
    /\ resp.status = HTTP_201_CREATED
    /\ resp.tasks[1].id > 1
    /\ resp.tasks[1].description # None
    /\ get_task_response(tasks, resp.tasks[1].id, Caller).resp.tasks = resp.tasks
    /\ get_task_response(tasks, resp.tasks[1].id, Caller).resp.status = HTTP_200_OK

\* what the claim has the store hold for a description sent as v: nothing for
\* an absent, empty or all-whitespace one, else v without the surrounding
\* whitespace
StoredDescription(v) ==
    IF v = None THEN None
    ELSE IF \A k \in DOMAIN v[1] : IsSpace(v[1][k]) THEN None
    ELSE Some(Strip(v[1]))

\* C18: a create answered 201 and an update answered 200 leave the row, and
\* answer, with description absent when the request's description was absent,
\* empty or all whitespace, and with the request's description stripped of
\* surrounding whitespace otherwise; no stored task ever has the empty string,
\* or a string with surrounding whitespace, as its description.
C18_BlankDescriptionStoredAbsent ==
    /\ Idle => \A id \in DOMAIN tasks :
                  /\ tasks[id].description # Some(<<>>)
                  /\ tasks[id].description # None
                        => Strip(tasks[id].description[1]) = tasks[id].description[1]
    /\ (/\ req.op \in {"create", "update"}
        /\ resp.status \in {HTTP_200_OK, HTTP_201_CREATED})
       => /\ tasks[resp.tasks[1].id].description = StoredDescription(req.description)
          /\ resp.tasks[1].description = StoredDescription(req.description)

\* an update with an all-whitespace description has left its task without a
\* description, beside a task whose description was stored stripped
C18_Witness ==
    /\ req.op = "update"
    /\ resp.status = HTTP_200_OK
    /\ req.description = Some(<<" ">>)
    /\ tasks[req.task_id].description = None
    /\ \E id \in DOMAIN tasks : tasks[id].description = Some(<<"d">>)

\* a title with something other than whitespace in it
NonBlank(title) == \E k \in DOMAIN title : ~IsSpace(title[k])

\* C19: a create request of a verified caller whose title is blank after
\* trimming is answered 422 and leaves the tasks table and its id sequence as
\* they were; with any other title it is answered 201 and adds exactly one
\* row, under an id that no existing task has, with the title trimmed,
\* completed false and the other rows untouched.  In every reachable state,
\* also after updates, every stored title is non-blank and trimmed.
C19_CreateRejectsBlankTitle ==
    /\ [](Idle => \A id \in DOMAIN tasks :
                     /\ NonBlank(tasks[id].title)
                     /\ Strip(tasks[id].title) = tasks[id].title
                     /\ tasks[id].id = id)
    /\ [][
           (Idle /\ req'.op = "create" /\ CallerOf(req', now) # 0)
           => IF ~NonBlank(req'.title)
              THEN /\ resp'.status = HTTP_422_UNPROCESSABLE_ENTITY
                   /\ tasks' = tasks
                   /\ task_seq' = task_seq
              ELSE /\ resp'.status = HTTP_201_CREATED
                   /\ resp'.tasks[1].id \notin DOMAIN tasks
                   /\ DOMAIN tasks' = DOMAIN tasks \cup {resp'.tasks[1].id}
                   /\ \A id \in DOMAIN tasks : tasks'[id] = tasks[id]
                   /\ tasks'[resp'.tasks[1].id].title = Strip(req'.title)
                   /\ tasks'[resp'.tasks[1].id].completed = FALSE
                   /\ resp'.tasks[1].completed = FALSE
       ]_vars

\* a padded title has been stored trimmed under a new id, beside an older
\* task that an update has renamed
C19_Witness ==
    /\ req.op = "create"
    /\ resp.status = HTTP_201_CREATED
    /\ req.title = <<" ", "t">>
    /\ tasks[resp.tasks[1].id].title = <<"t">>
    /\ \E id \in DOMAIN tasks :
          id < resp.tasks[1].id /\ tasks[id].title = <<"u">>

\* C20: an update request of a verified caller with a valid title, for an id
\* under which that caller owns a task, is answered 200 and changes that row
\* in title (the request's, trimmed), description (the request's, trimmed, or
\* absent) and updated_at (the clock reading of the update) and in nothing
\* else: id, user_id, completed and created_at stay, every other row stays,
\* no row appears or disappears.  For an id under which the caller owns no
\* task it is answered 404 "Task not found" and the table stays as it was.
C20_UpdateFrame ==
    [][
        (/\ Idle /\ req'.op = "update"
         /\ CallerOf(req', now) # 0
         /\ NonBlank(req'.title))
        => IF /\ req'.task_id \in DOMAIN tasks
              /\ tasks[req'.task_id].user_id = CallerOf(req', now)
           THEN /\ resp'.status = HTTP_200_OK
                /\ tasks' = [tasks EXCEPT
                                ![req'.task_id].title = Strip(req'.title),
                                ![req'.task_id].description =
                                    StoredDescription(req'.description),
                                ![req'.task_id].updated_at = now]
                /\ resp'.tasks = <<TaskResponse(tasks'[req'.task_id])>>
                /\ task_seq' = task_seq
           ELSE /\ resp' = TaskNotFound
                /\ tasks' = tasks
                /\ task_seq' = task_seq
    ]_vars

\* an update at a later clock reading has renamed a completed task and given
\* it a description, beside another task
C20_Witness ==
    /\ req.op = "update"
    /\ resp.status = HTTP_200_OK
    /\ tasks[req.task_id].completed
    /\ tasks[req.task_id].title = <<"u">>
    /\ tasks[req.task_id].description = Some(<<"d">>)
    /\ tasks[req.task_id].updated_at > tasks[req.task_id].created_at
    /\ Cardinality(DOMAIN tasks) > 1

\* every operation on task id, by user u, on the table ts ends as NotFound,
\* and the list of u does not show it
GoneFor(ts, id, u, t) ==
    /\ get_task_response(ts, id, u).resp = TaskNotFound
    /\ update_task(ts, id, u, <<"t">>, None, t).error = "NotFoundError"
    /\ toggle_task_completion(ts, id, u, t).error = "NotFoundError"
    /\ delete_task(ts, id, u).error = "NotFoundError"
    /\ \A row \in get_user_tasks(ts, u) : row.id # id

\* C21: a delete request answered 204 was made by the owner of the task and
\* leaves the tasks table without that row and otherwise as it was; an id the
\* sequence has handed out and that has no row never has a row again, so from
\* then on get, update, toggle and delete of that id end as NotFound for
\* every user and no list shows it; a request of a verified caller for such
\* an id (with a valid title, for update) is answered 404 "Task not found".
C21_DeleteRemovesExactlyOne ==
    /\ [](Idle => \A id \in (1..task_seq) \ DOMAIN tasks :
                     \A u \in DOMAIN users : GoneFor(tasks, id, u, now))
    /\ [][
           /\ \A id \in (1..task_seq) \ DOMAIN tasks : id \notin DOMAIN tasks'
           /\ (Idle /\ req'.op = "delete" /\ resp'.status = HTTP_204_NO_CONTENT)
                 => /\ req'.task_id \in DOMAIN tasks
                    /\ tasks[req'.task_id].user_id = CallerOf(req', now)
                    /\ DOMAIN tasks' = DOMAIN tasks \ {req'.task_id}
                    /\ \A id \in DOMAIN tasks' : tasks'[id] = tasks[id]
                    /\ task_seq' = task_seq
                    /\ \A u \in DOMAIN users : GoneFor(tasks', req'.task_id, u, now)
           /\ (/\ Idle /\ req'.op \in {"get"} \cup WriteOps
               /\ CallerOf(req', now) # 0
               /\ req'.task_id \notin DOMAIN tasks
               /\ req'.op = "update" => NonBlank(req'.title))
                 => resp' = TaskNotFound /\ tasks' = tasks
       ]_vars

\* a request for a task that its owner had deleted has been answered 404
\* while the owner's other task is still there
C21_Witness ==
    /\ req.op \in {"get"} \cup WriteOps
    /\ resp = TaskNotFound
    /\ req.task_id \in (1..task_seq) \ DOMAIN tasks
    /\ \E id \in DOMAIN tasks : tasks[id].user_id = Caller
    /\ Cardinality(DOMAIN users) > 1

\* C22: a signup answered 201 adds one user row under an id no existing user
\* has and answers with that user's id, email, name and created_at, without
\* password_hash, and with an access and a refresh token that each verify as
\* the new id.  No signup or signin response has a password_hash field in
\* its user or a stored hash in any other field, and every stored
\* password_hash is a bcrypt hash of the configured cost that the signup
\* password verifies against, never the password itself.
C22_SignupReturnsUserAndTokens ==
    /\ [](req.op \in {"signup", "signin"}
             => /\ resp.user # None
                   => DOMAIN resp.user[1] = {"id", "email", "name", "created_at"}
                /\ resp.status \in {HTTP_200_OK, HTTP_201_CREATED}
                   => /\ resp.user # None
                      /\ resp.user[1] = UserResponse(users[resp.user[1].id])
                      /\ resp.detail = "")
    /\ [](Idle => \A i \in DOMAIN users :
                     /\ users[i].password_hash.scheme = "bcrypt"
                     /\ users[i].password_hash.rounds = BCRYPT_ROUNDS
                     /\ DOMAIN users[i].password_hash
                           = {"scheme", "rounds", "salt", "checksum"}
                     /\ verify_password("password1", users[i].password_hash)
                     /\ ~verify_password("password2", users[i].password_hash))
    /\ [][
           (Idle /\ req'.op = "signup" /\ resp'.status = HTTP_201_CREATED)
           => /\ resp'.user[1].id \notin DOMAIN users
              /\ DOMAIN users' = DOMAIN users \cup {resp'.user[1].id}
              /\ \A i \in DOMAIN users : users'[i] = users[i]
              /\ users'[resp'.user[1].id].email = Lower(req'.email)
              /\ resp'.access_token # None /\ resp'.refresh_token # None
              /\ VerifiesAs(resp'.access_token[1], resp'.user[1].id, now)
              /\ VerifiesAs(resp'.refresh_token[1], resp'.user[1].id, now)
              /\ issued' \ issued
                    = IssuePair(resp'.access_token[1], resp'.refresh_token[1], now,
                                resp'.user[1].id)
       ]_vars

\* the second user has signed up, with an email written in capitals, and has
\* been given tokens of their own
C22_Witness ==
    /\ req.op = "signup"
    /\ resp.status = HTTP_201_CREATED
    /\ resp.user[1].id > 1
    /\ req.email = <<"A">> /\ resp.user[1].email = <<"a">>
    /\ VerifiesAs(resp.access_token[1], resp.user[1].id, now)
    /\ VerifiesAs(resp.refresh_token[1], resp.user[1].id, now)
    /\ \E i \in issued : i.user_id # resp.user[1].id

\* the 409 of signup
EmailTaken == HTTPException(HTTP_409_CONFLICT, "Email already registered")

\* C23: a signup request that passes validation and whose email, lowercased,
\* is the email of a user is answered 409 "Email already registered"; the
\* users table (every row, the existing user's id, name and password_hash
\* included) and the issued tokens stay as they were, the response carries
\* no user and no token, and a signin with the existing user's email and a
\* password its hash verifies is still answered 200 with that user.
C23_DuplicateSignupConflicts ==
    [][
        (/\ Idle /\ req'.op = "signup"
         /\ email_format_ok(req'.email)
         /\ password_length_ok(req'.password)
         /\ name_ok(req'.name)
         /\ \E i \in DOMAIN users : users[i].email = Lower(req'.email))
        => /\ resp' = EmailTaken
           /\ users' = users
           /\ issued' = issued
           /\ \A i \in DOMAIN users, pw \in SigninPasswords :
                 (users[i].email = Lower(req'.email)
                     /\ verify_password(pw, users[i].password_hash))
                 => LET r == signin_response(users', req'.email, pw, now)
                    IN /\ r.resp.status = HTTP_200_OK
                       /\ r.resp.user = Some(UserResponse(users[i]))
    ]_vars

\* a signup that spells an existing user's email in capitals has been refused
\* at a later clock reading than that user's signup
C23_Witness ==
    /\ req.op = "signup"
    /\ resp = EmailTaken
    /\ req.email = <<"A">>
    /\ \E i \in DOMAIN users :
          /\ users[i].email = <<"a">>
          /\ users[i].created_at < now
          /\ signin_response(users, <<"a">>, "password1", now).resp.status = HTTP_200_OK

\* the password of the signups of this model
SignupPassword == "password1"

\* C24: for every user that a signup has created and every spelling of that
\* user's email in capitals or small letters, authenticate_user with the
\* signup password returns that user, and signin answers 200 with that user
\* and an access and a refresh token that each verify as that user's id.
\* Every signin request, answered 200 or not, leaves the users table and its
\* id sequence as they were; the tokens of a signin answered 200 are the two
\* it hands out.
C24_SigninAfterSignup ==
    /\ [](Idle => \A i \in DOMAIN users, e \in ValidEmails :
                     Lower(e) = users[i].email
                        => LET r == signin_response(users, e, SignupPassword, now)
                           IN /\ authenticate_user(users, e, SignupPassword).user
                                    = Some(users[i])
                              /\ r.resp.status = HTTP_200_OK
                              /\ r.resp.user = Some(UserResponse(users[i]))
                              /\ VerifiesAs(r.resp.access_token[1], i, now)
                              /\ VerifiesAs(r.resp.refresh_token[1], i, now))
    /\ [][
           (Idle /\ req'.op = "signin")
           => /\ users' = users
              /\ user_seq' = user_seq
              /\ IF resp'.status = HTTP_200_OK
                 THEN /\ users[resp'.user[1].id].email = Lower(req'.email)
                      /\ VerifiesAs(resp'.access_token[1], resp'.user[1].id, now)
                      /\ VerifiesAs(resp'.refresh_token[1], resp'.user[1].id, now)
                      /\ issued' = issued \cup
                            IssuePair(resp'.access_token[1], resp'.refresh_token[1],
                                      now, resp'.user[1].id)
                 ELSE issued' = issued
       ]_vars

\* a user has signed in with the email in capitals, later than the
\* signup, and holds tokens newer than those of the signup
C24_Witness ==
    /\ req.op = "signin"
    /\ resp.status = HTTP_200_OK
    /\ req.email = <<"A">>
    /\ users[resp.user[1].id].email = <<"a">>
    /\ users[resp.user[1].id].created_at < now
    /\ \E i, j \in issued :
          /\ i.user_id = resp.user[1].id /\ j.user_id = resp.user[1].id
          /\ i.at < j.at
          /\ j.token = resp.refresh_token[1]

\* verify_token returned a payload for tok at clock reading t
Accepted(tok, t) ==
    LET v == verify_token(tok, t)
    IN v.raised = "" /\ v.payload # None

Toggles == {p \in DOMAIN procs : procs[p].op = "toggle"}

\* b negated n times
Flipped(b, n) == IF n % 2 = 0 THEN b ELSE ~b

\* C26: when the requests in flight have all been answered, every toggle
\* among them with 200, and the task is still there, its completed value is
\* the value it had at the start negated once for every toggle, whatever the
\* order in which the requests' SELECTs and commits took place.
C26_NoToggleLost ==
    (/\ \A p \in DOMAIN procs : procs[p].pc = "done"
     /\ \A p \in Toggles : procs[p].resp.status = HTTP_200_OK
     /\ 1 \in DOMAIN tasks)
    => tasks[1].completed = Flipped(FirstTasks[1].completed, Cardinality(Toggles))

\* C27: an update or toggle that held the task between its SELECT and its
\* commit while a delete of that task committed ends with the task still
\* deleted and with the answer 200 or 404, never 500.
C27_DeleteUnderWrite ==
    \A p \in DOMAIN procs :
        (procs[p].op \in {"update", "toggle"} /\ procs[p].raced /\ procs[p].pc = "done")
        => /\ procs[p].task_id \notin DOMAIN tasks
           /\ procs[p].resp.status \in {HTTP_200_OK, HTTP_404_NOT_FOUND}

\* the access tokens handed out so far that verify as their user at clock
\* reading t
LiveAccessTokens(t) ==
    {i \in issued : i.kind = "access" /\ VerifiesAs(i.token, i.user_id, t)}

\* C28: refresh does not look at the kind of the token presented.  A refresh
\* request that presents an access token which still verifies is answered
\* 200 with a new access token for the same subject, which verifies now and
\* whose expiry is one access lifetime after the present clock reading,
\* whatever the expiry of the token presented and of the refresh token of the
\* signin; so a client that keeps presenting its newest access token holds a
\* verifying token later than the expiry of that refresh token.
C28_AccessTokenRefreshes ==
    [][
        (Idle /\ req'.op = "refresh")
        => \A a \in LiveAccessTokens(now) :
              a.token = req'.token[1]
              => /\ resp'.status = HTTP_200_OK
                 /\ resp'.access_token # None
                 /\ VerifiesAs(resp'.access_token[1], a.user_id, now')
                 /\ resp'.access_token[1].payload.exp
                        = Some(timegm(now + AccessLifeTicks))
                 /\ resp'.access_token[1].payload.exp[1] >= a.token.payload.exp[1]
                 /\ Issue("access", resp'.access_token[1], now, a.user_id) \in issued'
                 /\ RefreshTokens' = RefreshTokens
    ]_vars

\* one signup and no signin since; its refresh token no longer verifies; a
\* refresh presenting an access token that is neither that refresh token nor
\* the access token of the signup has just been answered 200 with an access
\* token that verifies
C28_Witness ==
    /\ req.op = "refresh"
    /\ resp.status = HTTP_200_OK
    /\ Cardinality(RefreshTokens) = 1
    /\ \E r \in RefreshTokens, a \in issued :
          /\ Invalid(r.token, now)
          /\ a.kind = "access" /\ a.user_id = r.user_id /\ a.at > r.at
          /\ a.token = req.token[1]
          /\ a.token # r.token
          /\ VerifiesAs(resp.access_token[1], r.user_id, now)
          /\ resp.access_token[1].payload.exp[1] > r.token.payload.exp[1]

\* C29: every token handed out by signup, signin or refresh carries as its
\* subject the id of a row of the users table, every row of the tasks table
\* has for owner the id of a row of the users table, and no step removes a
\* row from the users table.
C29_SubjectsAndOwnersExist ==
    /\ [](/\ \A i \in issued :
                /\ i.token.payload.user_id = Some(i.user_id)
                /\ i.user_id \in DOMAIN users
                /\ users[i.user_id].id = i.user_id
          /\ \A id \in DOMAIN tasks : tasks[id].user_id \in DOMAIN users)
    /\ [][\A u \in DOMAIN users : u \in DOMAIN users' /\ users'[u].id = u]_vars

\* a refresh has just handed out a token, later than the signup, to a user
\* who owns a stored task
C29_Witness ==
    /\ req.op = "refresh"
    /\ resp.status = HTTP_200_OK
    /\ \E i, j \in issued, id \in DOMAIN tasks :
          /\ i.token = resp.access_token[1]
          /\ i.at = now
          /\ j.kind = "refresh" /\ j.user_id = i.user_id /\ j.at < i.at
          /\ tasks[id].user_id = i.user_id

====
